---- MODULE Spec2Model ----
(***************************************************************************)
(* Model of dom-renderables/DOMElement.js: the DOMElement component, its   *)
(* draw command queue, its mount/dismount lifecycle and the update         *)
(* requests it makes to the Node it is attached to.                        *)
(*                                                                         *)
(* JavaScript values are written as strings: a number is its numeral       *)
(* ("0", "100"), a boolean operand is "true" / "false", a missing map      *)
(* entry reads as "undefined".  No input set holds a string that spells a  *)
(* number or a boolean.  An object used as a map (classes, attributes,     *)
(* properties) is a sequence of <<key, value>> pairs in insertion order,   *)
(* which is the order `for (key in ...)` visits them.                      *)
(*                                                                         *)
(* Every method is an operator from the state before the call to the state *)
(* after it; the state is the record This.  A thrown TypeError sets the    *)
(* field fault and stops the call where it is thrown.                      *)
(***************************************************************************)
EXTENDS Naturals, Sequences, FiniteSets, TLC

VARIABLES
    _node,                  \* this._node: "null" or the owning Node
    _id,                    \* this._id: "null" or the id given to onMount
    _requestingUpdate,      \* this._requestingUpdate
    _renderSized,           \* this._renderSized
    _requestingRenderSize,  \* this._requestingRenderSize
    _requestRenderSize,     \* this._requestRenderSize (undefined reads as FALSE)
    _changeQueue,           \* this._changeQueue
    value,                  \* this.value, a DOMElement.Spec
    _UIEvents,              \* this._UIEvents
    _initialized,           \* this._initialized (undefined reads as FALSE)
    _inDraw,                \* this._inDraw (undefined reads as FALSE)
    outstanding,            \* requestUpdate calls the Node has not yet answered by onUpdate
    sent,                   \* what the Node received through sendDrawCommand during the last call
    last,                   \* the last call: its name, arguments, number of queue entries pushed, fault
    calls,                  \* number of calls made by the application and the Node (not the scheduler)
    removed,                \* the class names whose latest addClass / removeClass call was removeClass
    glCutoutState           \* operand of the last GL_CUTOUT_STATE the Node received, "none" before any

vars == <<_node, _id, _requestingUpdate, _renderSized, _requestingRenderSize,
          _requestRenderSize, _changeQueue, value, _UIEvents, _initialized,
          _inDraw, outstanding, sent, last, calls, removed, glCutoutState>>

\* Bound: calls made by the application and the Node in one behaviour.
MaxCalls == 3

Null == "null"
Undefined == "undefined"
SENTINEL == "famous-dom-element"
PATH == "data-fa-path"

----------------------------------------------------------------------------
\* JavaScript objects used as maps

RECURSIVE Get(_, _)
Get(m, k) ==
    IF m = <<>> THEN Undefined
    ELSE IF Head(m)[1] = k THEN Head(m)[2] ELSE Get(Tail(m), k)

Has(m, k) == \E i \in 1..Len(m) : m[i][1] = k

Put(m, k, v) ==
    IF Has(m, k)
    THEN [i \in 1..Len(m) |-> IF m[i][1] = k THEN <<k, v>> ELSE m[i]]
    ELSE Append(m, <<k, v>>)

Keys(m) == [i \in 1..Len(m) |-> m[i][1]]

Truthy(v) == v \notin {"", "0", "false", Undefined, Null}

Bool(b) == IF b THEN "true" ELSE "false"

----------------------------------------------------------------------------
\* The Node, the TransformSystem and Size, as the component uses them

Nodes == {"n1", "n2", "n3"}

getLocation(n) == IF n = "n1" THEN "body/0" ELSE "body/1"

getUIEvents(n) == IF n = "n1" THEN <<"click">> ELSE <<>>

Size_RENDER == "Size.RENDER"

getSizeMode(n) ==
    CASE n = "n1" -> <<"Size.ABSOLUTE", "Size.ABSOLUTE", "Size.ABSOLUTE">>
      [] n = "n2" -> <<Size_RENDER, "Size.ABSOLUTE", "Size.ABSOLUTE">>
      [] OTHER    -> <<"Size.ABSOLUTE", Size_RENDER, "Size.ABSOLUTE">>

getOpacity(n) == IF n = "n1" THEN "1" ELSE "0"

getSize(n) == IF n = "n1" THEN <<"100", "50">> ELSE <<"20", "10">>

\* TransformSystem.get(path).getLocalTransform(): 16 scalars
getLocalTransform(path) ==
    <<"1", "0", "0", "0",  "0", "1", "0", "0",
      "0", "0", "1", "0",  IF path = "body/0" THEN "0" ELSE "7", "0", "0", "1">>

sendDrawCommand(s, c) == [s EXCEPT !.sent = Append(@, c)]

requestUpdate(s) == [s EXCEPT !.outstanding = @ + 1]

----------------------------------------------------------------------------
\* DOMElement.Spec and the constructor options

Options ==
    { [tagName |-> Undefined, content |-> Undefined, classes |-> <<>>, attributes |-> <<>>],
      [tagName |-> "span", content |-> "hi", classes |-> <<>>, attributes |-> <<>>],
      [tagName |-> Undefined, content |-> Undefined,
       classes |-> << <<"a", "true">> >>, attributes |-> << <<"x", "1">> >>] }

\* a constructor that forgets to uppercase the tag name
toUpperCase_asGiven(str) == str

toUpperCase(str) == IF str = "span" THEN "SPAN" ELSE str

DOMElementSpec(options) ==
    [ tagName    |-> IF Truthy(options.tagName) THEN toUpperCase(options.tagName) ELSE "DIV",
      renderSize |-> <<"0", "0">>,
      classes    |-> Put(options.classes, SENTINEL, "true"),
      attributes |-> options.attributes,
      properties |-> <<>>,
      content    |-> IF Truthy(options.content) THEN options.content ELSE "",
      cutout     |-> TRUE ]

----------------------------------------------------------------------------
\* The state record and the helpers every method uses

This ==
    [ _node |-> _node, _id |-> _id, _requestingUpdate |-> _requestingUpdate,
      _renderSized |-> _renderSized, _requestingRenderSize |-> _requestingRenderSize,
      _requestRenderSize |-> _requestRenderSize, _changeQueue |-> _changeQueue,
      value |-> value, _UIEvents |-> _UIEvents, _initialized |-> _initialized,
      _inDraw |-> _inDraw, outstanding |-> outstanding,
      sent |-> <<>>, pushed |-> 0, fault |-> FALSE ]

push(s, cmds) ==
    [s EXCEPT !._changeQueue = @ \o cmds, !.pushed = @ + Len(cmds)]

throw(s) == [s EXCEPT !.fault = TRUE]

_requestUpdate_unbound(s) ==
    IF ~s._requestingUpdate
    THEN [(IF s._node # Null THEN requestUpdate(s) ELSE s) EXCEPT !._requestingUpdate = TRUE]
    ELSE s

_requestUpdate(s) ==
    IF ~s._requestingUpdate /\ s._node # Null
    THEN [requestUpdate(s) EXCEPT !._requestingUpdate = TRUE]
    ELSE s

\* the statement `if (!this._requestingUpdate) this._requestUpdate();`
arm(s) == IF ~s._requestingUpdate THEN _requestUpdate(s) ELSE s

----------------------------------------------------------------------------
\* Mutators

addClass(s, v) ==
    IF ~Truthy(Get(s.value.classes, v)) \/ s._inDraw
    THEN LET s1 == [s EXCEPT !.value.classes = Put(@, v, "true")]
             s2 == IF s1._initialized THEN push(s1, <<"ADD_CLASS", v>>) ELSE s1
         IN arm(s2)
    ELSE s

removeClass_clearing(s, v) ==
    IF Truthy(Get(s.value.classes, v)) \/ s._inDraw
    THEN LET s1 == [s EXCEPT !.value.classes = Put(@, v, "false")]
             s2 == IF s1._initialized THEN push(s1, <<"REMOVE_CLASS", v>>) ELSE s1
         IN arm(s2)
    ELSE s

removeClass(s, v) ==
    IF Truthy(Get(s.value.classes, v)) \/ s._inDraw
    THEN LET s1 == [s EXCEPT !.value.classes = Put(@, v, "true")]
             s2 == IF s1._initialized THEN push(s1, <<"REMOVE_CLASS", v>>) ELSE s1
         IN arm(s2)
    ELSE s

getClasses(s) == Keys(s.value.classes)

hasClass(s, v) == Truthy(Get(s.value.classes, v))

setAttribute(s, name, v) ==
    IF Get(s.value.attributes, name) # v \/ s._inDraw
    THEN LET s1 == [s EXCEPT !.value.attributes = Put(@, name, v)]
             s2 == IF s1._initialized THEN push(s1, <<"CHANGE_ATTRIBUTE", name, v>>) ELSE s1
         IN arm(s2)
    ELSE s

\* a setProperty whose guard forgets `|| this._inDraw`
setProperty_unforced(s, name, v) ==
    IF Get(s.value.properties, name) # v
    THEN LET s1 == [s EXCEPT !.value.properties = Put(@, name, v)]
             s2 == IF s1._initialized THEN push(s1, <<"CHANGE_PROPERTY", name, v>>) ELSE s1
             s3 == IF s2._renderSized THEN [s2 EXCEPT !._requestingRenderSize = TRUE] ELSE s2
         IN arm(s3)
    ELSE s

setProperty(s, name, v) ==
    IF Get(s.value.properties, name) # v \/ s._inDraw
    THEN LET s1 == [s EXCEPT !.value.properties = Put(@, name, v)]
             s2 == IF s1._initialized THEN push(s1, <<"CHANGE_PROPERTY", name, v>>) ELSE s1
             s3 == IF s2._renderSized THEN [s2 EXCEPT !._requestingRenderSize = TRUE] ELSE s2
         IN arm(s3)
    ELSE s

setContent(s, content) ==
    IF s.value.content # content \/ s._inDraw
    THEN LET s1 == [s EXCEPT !.value.content = content]
             s2 == IF s1._initialized THEN push(s1, <<"CHANGE_CONTENT", content>>) ELSE s1
             s3 == IF s2._renderSized THEN [s2 EXCEPT !._requestingRenderSize = TRUE] ELSE s2
         IN arm(s3)
    ELSE s

setCutoutState(s, usesCutout) ==
    IF s.value.cutout # usesCutout \/ s._inDraw
    THEN LET s1 == [s EXCEPT !.value.cutout = usesCutout]
             s2 == IF s1._initialized
                   THEN push(s1, <<"GL_CUTOUT_STATE", Bool(usesCutout)>>) ELSE s1
         IN IF s2._requestingUpdate THEN _requestUpdate(s2) ELSE s2
    ELSE s

getValue(s) ==
    [ tagName    |-> s.value.tagName,
      renderSize |-> s.value.renderSize,
      classes    |-> Keys(s.value.classes),
      attributes |-> s.value.attributes,
      properties |-> s.value.properties,
      content    |-> s.value.content,
      cutout     |-> s.value.cutout,
      styles     |-> s.value.properties,
      id         |-> Get(s.value.attributes, "id") ]

onShow(s) == setProperty(s, "display", "block")

onHide(s) == setProperty(s, "display", "none")

----------------------------------------------------------------------------
\* Hooks invoked by the Node

onTransformChange(s, transform) ==
    LET s1 == push(s, <<"CHANGE_TRANSFORM">>)
        s2 == push(s1, getLocalTransform(transform))
    IN arm(s2)

onSizeChange_measuring(s, width, height) ==
    IF s._initialized
    THEN IF s._node = Null THEN throw(s)
         ELSE LET sizeMode == getSizeMode(s._node)
                  sizedX == sizeMode[1] # Size_RENDER
                  sizedY == sizeMode[2] # Size_RENDER
                  s1 == push([s EXCEPT !.value.renderSize = <<width, height>>],
                             <<"CHANGE_SIZE",
                               IF sizedX THEN width ELSE Bool(sizedX),
                               IF sizedY THEN height ELSE Bool(sizedY)>>)
              IN arm(s1)
    ELSE arm(s)

onSizeChange(s, width, height) ==
    IF s._initialized
    THEN IF s._node = Null THEN throw(s)
         ELSE LET sizeMode == getSizeMode(s._node)
                  sizedX == sizeMode[1] # Size_RENDER
                  sizedY == sizeMode[2] # Size_RENDER
                  s1 == push(s, <<"CHANGE_SIZE",
                                  IF sizedX THEN width ELSE Bool(sizedX),
                                  IF sizedY THEN height ELSE Bool(sizedY)>>)
              IN arm(s1)
    ELSE arm(s)

onOpacityChange(s, opacity) == setProperty(s, "opacity", opacity)

_subscribe(s, uiEvent) ==
    LET s1 == IF s._initialized THEN push(s, <<"SUBSCRIBE", uiEvent>>) ELSE s
    IN arm(s1)

_unsubscribe(s, uiEvent) ==
    LET s1 == IF s._initialized THEN push(s, <<"UNSUBSCRIBE", uiEvent>>) ELSE s
    IN arm(s1)

onAddUIEvent(s, uiEvent) == _subscribe(s, uiEvent)

\* Array.prototype.indexOf: 0 stands for -1, positions count from 1
indexOf(arr, x) ==
    IF \E i \in 1..Len(arr) : arr[i] = x
    THEN CHOOSE i \in 1..Len(arr) : arr[i] = x /\ \A j \in 1..(i - 1) : arr[j] # x
    ELSE 0

\* Array.prototype.splice(index, 1)
splice(arr, index) == [i \in 1..(Len(arr) - 1) |-> IF i < index THEN arr[i] ELSE arr[i + 1]]

onRemoveUIEvent(s, uiEvent) ==
    LET index == indexOf(s._UIEvents, uiEvent)
    IN IF index # 0
       THEN [_unsubscribe(s, uiEvent) EXCEPT !._UIEvents = splice(@, index)]
       ELSE IF s._inDraw THEN _unsubscribe(s, uiEvent) ELSE s

preventDefault(s, uiEvent) ==
    LET s1 == IF s._initialized THEN push(s, <<"PREVENT_DEFAULT", uiEvent>>) ELSE s
    IN arm(s1)

allowDefault(s, uiEvent) ==
    LET s1 == IF s._initialized THEN push(s, <<"ALLOW_DEFAULT", uiEvent>>) ELSE s
    IN arm(s1)

\* an onSizeModeChange that returns quietly when no node is bound
onSizeModeChange_guarded(s, x, y, z) ==
    IF s._node = Null THEN s
    ELSE LET size == getSize(s._node)
         IN onSizeChange(s, size[1], size[2])

onSizeModeChange(s, x, y, z) ==
    IF s._node = Null THEN throw(s)
    ELSE LET size == getSize(s._node)
         IN onSizeChange(s, size[1], size[2])

onReceive(s, event, payload) ==
    IF event = "resize"
    THEN arm([s EXCEPT !.value.renderSize = <<payload[1], payload[2]>>])
    ELSE s

----------------------------------------------------------------------------
\* onUpdate: the flush of the queue

\* `while (len--) node.sendDrawCommand(queue.shift());`: the first len entries
\* leave the queue from its head and reach the Node in that order
\* a loop that takes the entries with queue.pop() instead of queue.shift()
RECURSIVE Reverse(_)
Reverse(q) == IF q = <<>> THEN <<>> ELSE Append(Reverse(Tail(q)), Head(q))

shiftLoop_pop(s, len) ==
    [s EXCEPT !.sent = @ \o Reverse(SubSeq(s._changeQueue, Len(s._changeQueue) - len + 1,
                                           Len(s._changeQueue))),
              !._changeQueue = SubSeq(@, 1, Len(@) - len)]

shiftLoop(s, len) ==
    [s EXCEPT !.sent = @ \o SubSeq(s._changeQueue, 1, len),
              !._changeQueue = SubSeq(@, len + 1, Len(@))]

onUpdate(s) ==
    IF s._node = Null THEN throw(s)
    ELSE LET location == getLocation(s._node)
             len == Len(s._changeQueue)
             s1 == IF len # 0
                   THEN LET a == sendDrawCommand(sendDrawCommand(s, "WITH"), location)
                            b == shiftLoop(a, len)
                        IN IF b._requestRenderSize
                           THEN [sendDrawCommand(sendDrawCommand(b, "DOM_RENDER_SIZE"), location)
                                    EXCEPT !._requestRenderSize = FALSE]
                           ELSE b
                   ELSE s
         IN [s1 EXCEPT !._requestingUpdate = FALSE]

----------------------------------------------------------------------------
\* Lifecycle

RECURSIVE replayClasses(_, _)
replayClasses(s, keys) ==
    IF keys = <<>> THEN s
    ELSE replayClasses(IF Truthy(Get(s.value.classes, Head(keys)))
                       THEN addClass(s, Head(keys)) ELSE s, Tail(keys))

RECURSIVE replayProperties(_, _)
replayProperties(s, keys) ==
    IF keys = <<>> THEN s
    ELSE LET val == Get(s.value.properties, Head(keys))
         IN replayProperties(IF Truthy(val) THEN setProperty(s, Head(keys), val) ELSE s,
                             Tail(keys))

RECURSIVE replayAttributes(_, _)
replayAttributes(s, keys) ==
    IF keys = <<>> THEN s
    ELSE LET val == Get(s.value.attributes, Head(keys))
         IN replayAttributes(IF Truthy(val) THEN setAttribute(s, Head(keys), val) ELSE s,
                             Tail(keys))

RECURSIVE replayUIEvents(_, _)
replayUIEvents(s, uiEvents) ==
    IF uiEvents = <<>> THEN s
    ELSE replayUIEvents(onAddUIEvent(s, Head(uiEvents)), Tail(uiEvents))

onMount(s, node, id) ==
    LET s1 == [s EXCEPT !._node = node, !._id = id, !._initialized = TRUE, !._inDraw = TRUE]
        s2 == push(s1, <<"INIT_DOM", s1.value.tagName>>)
        s3 == replayClasses(s2, Keys(s2.value.classes))
        s4 == replayProperties(s3, Keys(s3.value.properties))
        s5 == replayAttributes(s4, Keys(s4.value.attributes))
        s6 == IF Truthy(s5.value.content) THEN setContent(s5, s5.value.content) ELSE s5
        s7 == replayUIEvents(s6, getUIEvents(node))
        s8 == setAttribute(s7, PATH, getLocation(node))
        s9 == setProperty(s8, "display", "block")
        sizeMode == getSizeMode(node)
        s10 == onSizeModeChange(s9, sizeMode[1], sizeMode[2], sizeMode[3])
        s11 == onOpacityChange(s10, getOpacity(node))
        s12 == onTransformChange(s11, getLocation(s11._node))
        size == getSize(s12._node)
        s13 == onSizeChange(s12, size[1], size[2])
    IN [s13 EXCEPT !._inDraw = FALSE]

RECURSIVE resetKeys(_, _, _)
resetKeys(s, keys, cmd) ==
    IF keys = <<>> THEN s
    ELSE resetKeys(push(s, cmd \o <<Head(keys)>>), Tail(keys), cmd)

RECURSIVE resetPairs(_, _, _)
resetPairs(s, keys, cmd) ==
    IF keys = <<>> THEN s
    ELSE resetPairs(push(s, cmd \o <<Head(keys), "">>), Tail(keys), cmd)

reset(s) ==
    LET s1 == resetKeys(s, Keys(s.value.classes), <<"REMOVE_CLASS">>)
        s2 == resetPairs(s1, Keys(s1.value.properties), <<"CHANGE_PROPERTY">>)
        s3 == resetPairs(s2, Keys(s2.value.attributes), <<"CHANGE_ATTRIBUTE">>)
        s4 == IF Truthy(s3.value.content) THEN push(s3, <<"CHANGE_CONTENT", "">>) ELSE s3
    IN push(s4, <<"GL_CUTOUT_STATE", "false">>)

onDismount(s) ==
    LET s1 == reset(s)
        s2 == setProperty(s1, "display", "none")
        s3 == onUpdate(s2)
    IN IF s3.fault THEN s3 ELSE [s3 EXCEPT !._initialized = FALSE]

----------------------------------------------------------------------------
\* The state machine

Init ==
    /\ _node = Null
    /\ _id = Null
    /\ _requestingUpdate = FALSE
    /\ _renderSized = FALSE
    /\ _requestingRenderSize = FALSE
    /\ _requestRenderSize = FALSE
    /\ _changeQueue = <<>>
    /\ \E options \in Options : value = DOMElementSpec(options)
    /\ _UIEvents = <<>>
    /\ _initialized = FALSE
    /\ _inDraw = FALSE
    /\ outstanding = 0
    /\ sent = <<>>
    /\ last = [op |-> "new", arg |-> <<>>, pushed |-> 0, fault |-> FALSE]
    /\ calls = 0
    /\ removed = {}
    /\ glCutoutState = "none"

\* the operand of the last GL_CUTOUT_STATE among the commands cmds the Node
\* received, or prev when there is none
lastCutoutState(cmds, prev) ==
    LET at == {i \in 1..(Len(cmds) - 1) : cmds[i] = "GL_CUTOUT_STATE"}
    IN IF at = {} THEN prev
       ELSE cmds[(CHOOSE i \in at : \A j \in at : j <= i) + 1]

\* the state after a call that returned (or threw) with the record r
Return(r) ==
    /\ _node' = r._node
    /\ _id' = r._id
    /\ _requestingUpdate' = r._requestingUpdate
    /\ _renderSized' = r._renderSized
    /\ _requestingRenderSize' = r._requestingRenderSize
    /\ _requestRenderSize' = r._requestRenderSize
    /\ _changeQueue' = r._changeQueue
    /\ value' = r.value
    /\ _UIEvents' = r._UIEvents
    /\ _initialized' = r._initialized
    /\ _inDraw' = r._inDraw
    /\ outstanding' = r.outstanding
    /\ sent' = r.sent
    /\ glCutoutState' = lastCutoutState(r.sent, glCutoutState)

\* the call op(arg), made by the application or by the Node, that ends in r
Invoke(op, arg, r) ==
    /\ calls' = calls + 1
    /\ Return(r)
    /\ last' = [op |-> op, arg |-> arg, pushed |-> r.pushed, fault |-> r.fault]
    /\ removed' = CASE op = "removeClass" -> removed \cup {arg[1]}
                    [] op = "addClass"    -> removed \ {arg[1]}
                    [] OTHER              -> removed

\* a call made by the application or by the Node
Call(op, arg, r) ==
    /\ calls < MaxCalls
    /\ Invoke(op, arg, r)

ClassNames == {"a", SENTINEL}
AttributeValues == {"1", "2"}
Contents == {"hi", ""}
Sizes == {<<"30", "40">>}

AddClass == \E c \in ClassNames : Call("addClass", <<c>>, addClass(This, c))

RemoveClass == \E c \in ClassNames : Call("removeClass", <<c>>, removeClass(This, c))

SetAttribute ==
    \E v \in AttributeValues : Call("setAttribute", <<"x", v>>, setAttribute(This, "x", v))

SetProperty == Call("setProperty", <<"color", "red">>, setProperty(This, "color", "red"))

SetContent == \E c \in Contents : Call("setContent", <<c>>, setContent(This, c))

SetCutoutState ==
    \E b \in BOOLEAN : Call("setCutoutState", <<Bool(b)>>, setCutoutState(This, b))

OnShow == Call("onShow", <<>>, onShow(This))

OnHide == Call("onHide", <<>>, onHide(This))

OnMount ==
    \E n \in Nodes : Call("onMount", <<n>>, onMount(This, n, getLocation(n)))

OnDismount == Call("onDismount", <<>>, onDismount(This))

OnTransformChange ==
    Call("onTransformChange", <<"body/1">>, onTransformChange(This, "body/1"))

OnSizeChange ==
    \E sz \in Sizes : Call("onSizeChange", sz, onSizeChange(This, sz[1], sz[2]))

OnSizeModeChange ==
    Call("onSizeModeChange", <<>>,
         onSizeModeChange(This, Size_RENDER, Size_RENDER, Size_RENDER))

OnOpacityChange == Call("onOpacityChange", <<"0.5">>, onOpacityChange(This, "0.5"))

OnAddUIEvent == Call("onAddUIEvent", <<"click">>, onAddUIEvent(This, "click"))

OnRemoveUIEvent == Call("onRemoveUIEvent", <<"click">>, onRemoveUIEvent(This, "click"))

PreventDefault == Call("preventDefault", <<"click">>, preventDefault(This, "click"))

AllowDefault == Call("allowDefault", <<"click">>, allowDefault(This, "click"))

ResizePayload == <<"8", "9">>

OnReceive ==
    \E ev \in {"resize", "click"} :
        Call("onReceive", <<ev>>, onReceive(This, ev, ResizePayload))

\* the scheduler answers one requestUpdate by invoking onUpdate
OnUpdate ==
    /\ outstanding > 0
    /\ LET r == onUpdate([This EXCEPT !.outstanding = @ - 1])
       IN /\ Return(r)
          /\ last' = [op |-> "onUpdate", arg |-> <<>>, pushed |-> r.pushed, fault |-> r.fault]
    /\ UNCHANGED <<calls, removed>>

Next ==
    \/ AddClass
    \/ RemoveClass
    \/ SetAttribute
    \/ SetProperty
    \/ SetContent
    \/ SetCutoutState
    \/ OnShow
    \/ OnHide
    \/ OnMount
    \/ OnDismount
    \/ OnTransformChange
    \/ OnSizeChange
    \/ OnSizeModeChange
    \/ OnOpacityChange
    \/ OnAddUIEvent
    \/ OnRemoveUIEvent
    \/ PreventDefault
    \/ AllowDefault
    \/ OnReceive
    \/ OnUpdate

Spec == Init /\ [][Next]_vars

----------------------------------------------------------------------------
\* Mutators, mount, dismount and the scheduler, with room for a remount after
\* a mutation: mutate, mount, dismount, mount

\* Bound: calls in one behaviour of SpecRemount.
MaxRemountCalls == 4

RemountCall(op, arg, r) ==
    /\ calls < MaxRemountCalls
    /\ Invoke(op, arg, r)

RemountAddClass ==
    \E c \in ClassNames : RemountCall("addClass", <<c>>, addClass(This, c))

RemountRemoveClass ==
    \E c \in ClassNames : RemountCall("removeClass", <<c>>, removeClass(This, c))

RemountSetAttribute ==
    \E v \in AttributeValues :
        RemountCall("setAttribute", <<"x", v>>, setAttribute(This, "x", v))

RemountSetProperty ==
    RemountCall("setProperty", <<"color", "red">>, setProperty(This, "color", "red"))

RemountSetContent ==
    \E c \in Contents : RemountCall("setContent", <<c>>, setContent(This, c))

RemountOnMount ==
    \E n \in Nodes : RemountCall("onMount", <<n>>, onMount(This, n, getLocation(n)))

RemountOnDismount == RemountCall("onDismount", <<>>, onDismount(This))

NextRemount ==
    \/ RemountAddClass
    \/ RemountRemoveClass
    \/ RemountSetAttribute
    \/ RemountSetProperty
    \/ RemountSetContent
    \/ RemountOnMount
    \/ RemountOnDismount
    \/ OnUpdate

SpecRemount == Init /\ [][NextRemount]_vars

\* The scheduler answers every requestUpdate: an onUpdate that stays due is
\* eventually invoked.  Nothing obliges the application or the Node to call.
SpecLive == Init /\ [][Next]_vars /\ WF_vars(OnUpdate)

----------------------------------------------------------------------------
\* Vocabulary of the properties

Mutators == {"addClass", "removeClass", "setAttribute", "setProperty",
             "setContent", "setCutoutState"}

\* the step is a call (by the application or the Node) of the method op
IsCall(op) == calls' = calls + 1 /\ last'.op = op

\* the step is the scheduler's invocation of onUpdate
IsDrain == calls' = calls /\ outstanding' = outstanding - 1 /\ last'.op = "onUpdate"

\* the command a mutator call stands for
MutatorCmd(op, arg) ==
    CASE op = "addClass"       -> <<"ADD_CLASS", arg[1]>>
      [] op = "removeClass"    -> <<"REMOVE_CLASS", arg[1]>>
      [] op = "setAttribute"   -> <<"CHANGE_ATTRIBUTE", arg[1], arg[2]>>
      [] op = "setProperty"    -> <<"CHANGE_PROPERTY", arg[1], arg[2]>>
      [] op = "setContent"     -> <<"CHANGE_CONTENT", arg[1]>>
      [] op = "setCutoutState" -> <<"GL_CUTOUT_STATE", arg[1]>>

\* the value the call asks for differs from the stored one
MutatorChanges(op, arg) ==
    CASE op = "addClass"       -> ~Truthy(Get(value.classes, arg[1]))
      [] op = "removeClass"    -> Truthy(Get(value.classes, arg[1]))
      [] op = "setAttribute"   -> Get(value.attributes, arg[1]) # arg[2]
      [] op = "setProperty"    -> Get(value.properties, arg[1]) # arg[2]
      [] op = "setContent"     -> value.content # arg[1]
      [] op = "setCutoutState" -> Bool(value.cutout) # arg[1]

\* first position of the run pat in seq, 0 if it does not occur
Find(seq, pat) ==
    LET hits == {i \in 1..Len(seq) :
                    i + Len(pat) - 1 <= Len(seq) /\ SubSeq(seq, i, i + Len(pat) - 1) = pat}
    IN IF hits = {} THEN 0 ELSE CHOOSE i \in hits : \A j \in hits : i <= j

\* every run of pats occurs in seq, each starting after the one before it
InOrder(seq, pats) ==
    /\ \A k \in 1..Len(pats) : Find(seq, pats[k]) # 0
    /\ \A k \in 1..(Len(pats) - 1) : Find(seq, pats[k]) < Find(seq, pats[k + 1])

\* the CHANGE_SIZE command for the size <<w, h>> of a node in the size mode of n
SizeCmd(n, w, h) ==
    <<"CHANGE_SIZE",
      IF getSizeMode(n)[1] = Size_RENDER THEN "false" ELSE w,
      IF getSizeMode(n)[2] = Size_RENDER THEN "false" ELSE h>>

\* one command per entry of a map that satisfies keep, in key order
RECURSIVE MapCmds(_, _, _)
MapCmds(m, opcode, mode) ==
    IF m = <<>> THEN <<>>
    ELSE LET k == Head(m)[1]
             v == Head(m)[2]
             cmd == CASE mode = "replay-key"   -> IF Truthy(v) THEN <<opcode, k>> ELSE <<>>
                      [] mode = "replay-pair"  -> IF Truthy(v) THEN <<opcode, k, v>> ELSE <<>>
                      [] mode = "clear-key"    -> <<opcode, k>>
                      [] mode = "clear-pair"   -> <<opcode, k, "">>
         IN cmd \o MapCmds(Tail(m), opcode, mode)

RECURSIVE EventCmds(_)
EventCmds(evs) ==
    IF evs = <<>> THEN <<>> ELSE <<"SUBSCRIBE", Head(evs)>> \o EventCmds(Tail(evs))

----------------------------------------------------------------------------
\* C1: on a mounted component, outside the mount replay, a mutator call
\* appends exactly its command when the value it asks for differs from the
\* stored one and nothing when it repeats the stored value; the same mutator
\* called twice in a row with the same argument appends at most one command
\* in total.
C1_Step ==
    (last'.op \in Mutators /\ calls' = calls + 1 /\ _initialized /\ ~_inDraw) =>
        /\ _changeQueue' = _changeQueue \o
               (IF MutatorChanges(last'.op, last'.arg)
                THEN MutatorCmd(last'.op, last'.arg) ELSE <<>>)
        /\ (last.op = last'.op /\ last.arg = last'.arg) =>
               last.pushed + last'.pushed <= Len(MutatorCmd(last'.op, last'.arg))

C1_ChangedValuesOnly == [][C1_Step]_vars

\* C2: after removeClass(c) the class c is absent (hasClass(c) is false and c
\* is not among the classes reported), and the call enqueues a REMOVE_CLASS
\* command only if c was present before it.
C2_Step ==
    IsCall("removeClass") =>
        LET c == last'.arg[1]
        IN /\ ~Truthy(Get(value'.classes, c))
           /\ \A i \in 1..Len(value'.classes) : value'.classes[i][1] # c
           /\ last'.pushed > 0 => Truthy(Get(value.classes, c))

C2_RemoveClassRecordsAbsent == [][C2_Step]_vars

\* C3: between calls, _requestingUpdate is true exactly when the queue is
\* non-empty or a requestUpdate call has not been answered yet.
C3_FlushPendingIff ==
    _requestingUpdate <=> (_changeQueue # <<>> \/ outstanding > 0)

\* C4: at most one requestUpdate call is outstanding at any time, and the
\* commands queued on a mounted component are covered by exactly one
\* outstanding request.
C4_OneOutstandingRequest ==
    /\ outstanding <= 1
    /\ (_initialized /\ _changeQueue # <<>>) => outstanding = 1

\* C5: a call made while _initialized is false pushes nothing onto the queue,
\* except onMount, whose pushes start with the pair INIT_DOM, tagName.
C5_Step ==
    ~_initialized =>
        \/ last'.pushed = 0
        \/ /\ last'.op = "onMount"
           /\ Len(_changeQueue') >= Len(_changeQueue) + 2
           /\ SubSeq(_changeQueue', 1, Len(_changeQueue) + 2)
                  = _changeQueue \o <<"INIT_DOM", value.tagName>>

C5_NothingQueuedWhileDetached == [][C5_Step]_vars

\* C6: onUpdate on a mounted component with a non-empty queue sends WITH and
\* the location, then the queue entries in the order they were pushed, and
\* leaves the queue empty and _requestingUpdate false; with an empty queue it
\* sends nothing.
C6_Step ==
    (IsDrain /\ _initialized) =>
        /\ sent' = IF _changeQueue # <<>>
                   THEN <<"WITH", getLocation(_node)>> \o _changeQueue
                   ELSE <<>>
        /\ _changeQueue' = <<>>
        /\ ~_requestingUpdate'

C6_DrainSendsQueueInOrder == [][C6_Step]_vars

C6_Witness ==
    /\ last.op = "onUpdate"
    /\ _initialized
    /\ Len(sent) > 2
    /\ _changeQueue = <<>>
    /\ calls >= 2

\* C7: onMount pushes, in this order: INIT_DOM and the tag; ADD_CLASS for
\* every class that is true; CHANGE_PROPERTY for every non-falsy property;
\* CHANGE_ATTRIBUTE for every non-falsy attribute; CHANGE_CONTENT if the
\* content is non-empty; SUBSCRIBE for every UI event of the node; the path
\* attribute; display block; then the commands of the size mode, opacity,
\* transform and size hooks.  Stored values are pushed although unchanged,
\* _inDraw is false when onMount returns, and _initialized stays true until
\* onDismount.
C7_Step ==
    /\ IsCall("onMount") =>
           LET n == last'.arg[1]
               loc == getLocation(n)
           IN /\ _changeQueue' =
                     _changeQueue
                     \o <<"INIT_DOM", value.tagName>>
                     \o MapCmds(value.classes, "ADD_CLASS", "replay-key")
                     \o MapCmds(value.properties, "CHANGE_PROPERTY", "replay-pair")
                     \o MapCmds(value.attributes, "CHANGE_ATTRIBUTE", "replay-pair")
                     \o (IF value.content # "" THEN <<"CHANGE_CONTENT", value.content>> ELSE <<>>)
                     \o EventCmds(getUIEvents(n))
                     \o <<"CHANGE_ATTRIBUTE", PATH, loc>>
                     \o <<"CHANGE_PROPERTY", "display", "block">>
                     \o SizeCmd(n, getSize(n)[1], getSize(n)[2])
                     \o <<"CHANGE_PROPERTY", "opacity", getOpacity(n)>>
                     \o <<"CHANGE_TRANSFORM">> \o getLocalTransform(loc)
                     \o SizeCmd(n, getSize(n)[1], getSize(n)[2])
              /\ ~_inDraw'
              /\ _initialized'
    /\ (_initialized /\ ~IsCall("onDismount")) => _initialized'

C7_MountReplayOrder == [][C7_Step]_vars

C7_Witness ==
    /\ last.op = "onMount"
    /\ _initialized
    /\ Get(value.properties, "color") = "red"
    /\ Find(_changeQueue, <<"CHANGE_PROPERTY", "color", "red">>) # 0

\* C8 (as stated): a component constructed with tagName 'span' and content
\* 'hi', mounted and then drained once, sends WITH, the location, INIT_DOM
\* 'SPAN', ADD_CLASS 'famous-dom-element', CHANGE_PROPERTY display block,
\* CHANGE_CONTENT 'hi', CHANGE_ATTRIBUTE data-fa-path location, ...,
\* CHANGE_PROPERTY opacity, CHANGE_TRANSFORM with 16 scalars, CHANGE_SIZE, in
\* this relative order, CHANGE_SIZE being last.
C8_Scenario ==
    /\ calls = 1
    /\ last.op = "onUpdate"
    /\ _initialized
    /\ value.content = "hi"

C8_Burst(middle) ==
    LET loc == getLocation(_node)
        size == SizeCmd(_node, getSize(_node)[1], getSize(_node)[2])
    IN /\ SubSeq(sent, 1, 2) = <<"WITH", loc>>
       /\ InOrder(sent,
              << <<"INIT_DOM", "SPAN">>,
                 <<"ADD_CLASS", SENTINEL>> >>
              \o middle \o
              << <<"CHANGE_PROPERTY", "opacity", getOpacity(_node)>>,
                 <<"CHANGE_TRANSFORM">> \o getLocalTransform(loc) >>)
       /\ Len(sent) >= 3
       /\ SubSeq(sent, Len(sent) - 2, Len(sent)) = size
       /\ Find(sent, <<"CHANGE_PROPERTY", "opacity", getOpacity(_node)>>) < Len(sent) - 2

C8_DisplayBeforeContent ==
    C8_Scenario =>
        C8_Burst(<< <<"CHANGE_PROPERTY", "display", "block">>,
                    <<"CHANGE_CONTENT", "hi">>,
                    <<"CHANGE_ATTRIBUTE", PATH, getLocation(_node)>> >>)

\* C8 (amended): the same burst, with CHANGE_CONTENT 'hi' before the
\* data-fa-path attribute and the attribute before CHANGE_PROPERTY display
\* block, which precedes the opacity command.
C8_ContentPathDisplay ==
    C8_Scenario =>
        C8_Burst(<< <<"CHANGE_CONTENT", "hi">>,
                    <<"CHANGE_ATTRIBUTE", PATH, getLocation(_node)>>,
                    <<"CHANGE_PROPERTY", "display", "block">> >>)

C8_Witness ==
    /\ C8_Scenario
    /\ Find(sent, <<"CHANGE_CONTENT", "hi">>) # 0
    /\ _changeQueue = <<>>

\* C9: onDismount of a mounted component sends one burst: WITH and the
\* location, the commands already queued, REMOVE_CLASS for every class, an
\* empty CHANGE_PROPERTY for every property, an empty CHANGE_ATTRIBUTE for
\* every attribute, an empty CHANGE_CONTENT if the content is non-empty,
\* GL_CUTOUT_STATE false, and last CHANGE_PROPERTY display none; afterwards
\* the queue is empty and _initialized is false.
C9_Step ==
    (IsCall("onDismount") /\ _initialized) =>
        /\ sent' = <<"WITH", getLocation(_node)>>
                   \o _changeQueue
                   \o MapCmds(value.classes, "REMOVE_CLASS", "clear-key")
                   \o MapCmds(value.properties, "CHANGE_PROPERTY", "clear-pair")
                   \o MapCmds(value.attributes, "CHANGE_ATTRIBUTE", "clear-pair")
                   \o (IF value.content # "" THEN <<"CHANGE_CONTENT", "">> ELSE <<>>)
                   \o <<"GL_CUTOUT_STATE", "false">>
                   \o <<"CHANGE_PROPERTY", "display", "none">>
        /\ _changeQueue' = <<>>
        /\ ~_initialized'

C9_DismountBurstEndsHidden == [][C9_Step]_vars

\* C10: onDismount and onUpdate never throw, and onDismount on a component
\* that is not mounted sends nothing, pushes nothing and changes no state.
C10_Step ==
    /\ (IsCall("onDismount") \/ IsDrain) => ~last'.fault
    /\ (IsCall("onDismount") /\ ~_initialized) =>
           /\ sent' = <<>>
           /\ last'.pushed = 0
           /\ UNCHANGED <<_node, _id, _requestingUpdate, _renderSized,
                          _requestingRenderSize, _requestRenderSize, _changeQueue,
                          value, _UIEvents, _initialized, _inDraw, outstanding>>

C10_DismountSafeWhenDetached == [][C10_Step]_vars

\* C11: the local state survives detachment.  onDismount leaves classes,
\* attributes and content as they are (of the properties it only sets
\* display), and a mount that follows a dismount pushes ADD_CLASS for every
\* class that was added and not removed afterwards, and for no class that was
\* removed, CHANGE_PROPERTY and CHANGE_ATTRIBUTE for every value that is set
\* and CHANGE_CONTENT for non-empty content.
Replayed == SubSeq(_changeQueue', Len(_changeQueue) + 1, Len(_changeQueue'))

C11_Step ==
    /\ (IsCall("onDismount") /\ _initialized) =>
           /\ value'.classes = value.classes
           /\ value'.attributes = value.attributes
           /\ value'.content = value.content
           /\ value'.properties = Put(value.properties, "display", "none")
    /\ (IsCall("onMount") /\ ~_initialized /\ _node # Null) =>
           /\ \A i \in 1..Len(value.classes) :
                  (Truthy(value.classes[i][2]) /\ value.classes[i][1] \notin removed)
                      => Find(Replayed, <<"ADD_CLASS", value.classes[i][1]>>) # 0
           /\ \A c \in removed : Find(Replayed, <<"ADD_CLASS", c>>) = 0
           /\ \A i \in 1..Len(value.properties) :
                  Truthy(value.properties[i][2])
                      => Find(Replayed, <<"CHANGE_PROPERTY">> \o value.properties[i]) # 0
           /\ \A i \in 1..Len(value.attributes) :
                  Truthy(value.attributes[i][2])
                      => Find(Replayed, <<"CHANGE_ATTRIBUTE">> \o value.attributes[i]) # 0
           /\ value.content # "" => Find(Replayed, <<"CHANGE_CONTENT", value.content>>) # 0

C11_StateSurvivesDetachment == [][C11_Step]_vars

\* C12: once mounted, getValue() reports what the mutators established: the
\* argument of the mutator just called, no class whose latest class call was
\* removeClass, and the tag given at construction; onUpdate changes nothing
\* of what getValue() reports.
InList(seq, x) == \E i \in 1..Len(seq) : seq[i] = x

C12_Step ==
    /\ _initialized' =>
           LET gv == getValue(This)'
               op == last'.op
               arg == last'.arg
           IN /\ (op \in Mutators /\ calls' = calls + 1) =>
                     CASE op = "addClass"       -> InList(gv.classes, arg[1])
                       [] op = "removeClass"    -> ~InList(gv.classes, arg[1])
                       [] op = "setAttribute"   -> Get(gv.attributes, arg[1]) = arg[2]
                       [] op = "setProperty"    -> Get(gv.properties, arg[1]) = arg[2]
                       [] op = "setContent"     -> gv.content = arg[1]
                       [] op = "setCutoutState" -> Bool(gv.cutout) = arg[1]
              /\ \A c \in removed' : ~InList(gv.classes, c)
              /\ gv.tagName = value.tagName
    /\ IsDrain => getValue(This)' = getValue(This)

C12_GetValueRoundTrip == [][C12_Step]_vars

\* C13 (as stated): onTransformChange, onSizeChange and onSizeModeChange,
\* called before any mount has bound a node, throw and leave the queue and
\* the flags as they were.
GeometryHooks == {"onTransformChange", "onSizeChange", "onSizeModeChange"}

QueueAndFlagsUnchanged ==
    UNCHANGED <<_changeQueue, _requestingUpdate, _initialized, _inDraw,
                _renderSized, _requestingRenderSize, _requestRenderSize, outstanding>>

C13_HooksFaultStep ==
    (calls' = calls + 1 /\ last'.op \in GeometryHooks /\ _node = Null) =>
        /\ last'.fault
        /\ QueueAndFlagsUnchanged

C13_HooksFaultBeforeMount == [][C13_HooksFaultStep]_vars

\* C13 (amended): before any mount has bound a node, onSizeModeChange throws
\* and leaves the queue and the flags as they were; onSizeChange returns
\* normally and leaves the queue and the flags as they were; onTransformChange
\* returns normally.
C13_Step ==
    (calls' = calls + 1 /\ _node = Null) =>
        /\ last'.op = "onSizeModeChange" => (last'.fault /\ QueueAndFlagsUnchanged)
        /\ last'.op = "onSizeChange" => (~last'.fault /\ QueueAndFlagsUnchanged)
        /\ last'.op = "onTransformChange" => ~last'.fault

C13_OnlySizeModeChangeFaults == [][C13_Step]_vars

C13_Witness ==
    /\ last.op = "onSizeModeChange"
    /\ last.fault
    /\ _node = Null
    /\ calls >= 1

\* C14: _UIEvents holds the subscribed event names without duplicates: after
\* onAddUIEvent(name) it holds name; onRemoveUIEvent(name) on a mounted
\* component, outside the mount replay, takes a tracked name out and pushes
\* exactly one UNSUBSCRIBE command; for a name that is not tracked it pushes
\* nothing outside the mount replay.
C14_Step ==
    /\ \A i, j \in 1..Len(_UIEvents') : _UIEvents'[i] = _UIEvents'[j] => i = j
    /\ IsCall("onAddUIEvent") => InList(_UIEvents', last'.arg[1])
    /\ (IsCall("onRemoveUIEvent") /\ ~_inDraw) =>
           IF InList(_UIEvents, last'.arg[1])
           THEN /\ ~InList(_UIEvents', last'.arg[1])
                /\ _initialized =>
                       _changeQueue' = _changeQueue \o <<"UNSUBSCRIBE", last'.arg[1]>>
           ELSE last'.pushed = 0

C14_TracksSubscribedEvents == [][C14_Step]_vars

\* C15: in render-size tracking mode (the flag _renderSized, or a component
\* mounted on a node that has a size mode Size.RENDER, which is what the flag
\* stands for) a setProperty or setContent call that changes the value marks
\* a measurement request (_requestingRenderSize); the next onUpdate with a
\* non-empty queue ends its burst with DOM_RENDER_SIZE and the location and
\* clears the mark; no other mutator changes the mark, and a burst without a
\* marked request holds no DOM_RENDER_SIZE.
RenderSizeTracking ==
    \/ _renderSized
    \/ /\ _initialized
       /\ _node # Null
       /\ \E i \in 1..3 : getSizeMode(_node)[i] = Size_RENDER

C15_Step ==
    /\ (calls' = calls + 1 /\ last'.op \in {"setProperty", "setContent"}
            /\ RenderSizeTracking /\ MutatorChanges(last'.op, last'.arg)) =>
           _requestingRenderSize'
    /\ (IsDrain /\ _requestingRenderSize /\ _changeQueue # <<>>) =>
           /\ Len(sent') >= 2
           /\ SubSeq(sent', Len(sent') - 1, Len(sent'))
                  = <<"DOM_RENDER_SIZE", getLocation(_node)>>
           /\ ~_requestingRenderSize'
    /\ (calls' = calls + 1 /\ last'.op \in Mutators \ {"setProperty", "setContent"}) =>
           _requestingRenderSize' = _requestingRenderSize
    /\ (IsDrain /\ ~_requestingRenderSize) => ~InList(sent', "DOM_RENDER_SIZE")

C15_MeasurementRequested == [][C15_Step]_vars

\* C16: with a scheduler that answers every requestUpdate, an armed flush is
\* eventually drained (_requestingUpdate leads to ~_requestingUpdate), and
\* the commands queued on a mounted component are eventually sent (the queue
\* becomes empty) without any further call.
C16_ArmedFlushDrains == _requestingUpdate ~> ~_requestingUpdate

C16_EveryCommandIsSent ==
    /\ C16_ArmedFlushDrains
    /\ (_initialized /\ _changeQueue # <<>>) ~> (_changeQueue = <<>>)

\* C17: onReceive('resize', payload) on a mounted component copies the two
\* payload components into renderSize, leaves the rest of value alone,
\* pushes and sends nothing, and arms a flush: _requestingUpdate is true
\* afterwards and requestUpdate is called once if no request was pending.
\* The onUpdate it causes sends nothing: when the call makes the request the
\* queue is empty, and the onUpdate that follows it on an empty queue sends
\* nothing.
IsResize == IsCall("onReceive") /\ last'.arg = <<"resize">>

C17_Step ==
    /\ (IsResize /\ _initialized) =>
           /\ value' = [value EXCEPT !.renderSize = ResizePayload]
           /\ _changeQueue' = _changeQueue
           /\ last'.pushed = 0
           /\ sent' = <<>>
           /\ _requestingUpdate'
           /\ outstanding' = IF _requestingUpdate THEN outstanding ELSE outstanding + 1
           /\ ~_requestingUpdate => _changeQueue' = <<>>
    /\ (IsDrain /\ _initialized /\ last.op = "onReceive" /\ last.arg = <<"resize">>
            /\ _changeQueue = <<>>) =>
           sent' = <<>>

C17_ResizeArmsWithoutCommand == [][C17_Step]_vars

C19_Step ==
    value'.renderSize # value.renderSize =>
        /\ last'.op = "onReceive"
        /\ last'.arg = <<"resize">>
        /\ calls' = calls + 1

C19_RenderSizeOnlyByResize == [][C19_Step]_vars

C19_Witness ==
    /\ value.renderSize = ResizePayload
    /\ last.op \in {"onSizeChange", "onMount", "onDismount", "onUpdate"}
    /\ ~last.fault

\* C20: onDismount clears the owning-node reference: after it returns _node
\* is null, and from then until the next onMount no call makes the node
\* receive requestUpdate or sendDrawCommand.
C20_DismountClearsNode ==
    (IsCall("onDismount") /\ ~last'.fault) => _node' = Null

C20_NodeLeftAlone ==
    (~_initialized /\ calls' = calls + 1 /\ last'.op # "onMount") =>
        /\ outstanding' <= outstanding
        /\ sent' = <<>>

C20_NodeReleasedOnDismount == [][C20_DismountClearsNode /\ C20_NodeLeftAlone]_vars

C20_OnlyNodeLeftAlone == [][C20_NodeLeftAlone]_vars

\* C21: onSizeChange(width, height) on an initialized component appends
\* exactly one CHANGE_SIZE command whose operand for each of x and y is the
\* given value when that axis's size mode is not Size.RENDER and false when
\* it is; on a component that is not initialized it appends nothing. It
\* sends nothing and leaves value alone. It arms a flush whenever an owning
\* node is bound (_requestingUpdate is true afterwards, with one
\* requestUpdate call if none was pending); with no node bound it changes
\* neither flag nor request count.
C21_Enqueues ==
    IsCall("onSizeChange") =>
        /\ ~last'.fault
        /\ sent' = <<>>
        /\ value' = value
        /\ IF _initialized
           THEN /\ _changeQueue' = _changeQueue \o SizeCmd(_node, last'.arg[1], last'.arg[2])
                /\ last'.pushed = 3
           ELSE /\ _changeQueue' = _changeQueue
                /\ last'.pushed = 0

C21_Arms ==
    /\ _requestingUpdate'
    /\ outstanding' = IF _requestingUpdate THEN outstanding ELSE outstanding + 1

C21_ArmsWhenBound ==
    IsCall("onSizeChange") =>
        IF _node # Null THEN C21_Arms
        ELSE _requestingUpdate' = _requestingUpdate /\ outstanding' = outstanding

C21_SizeCommandPerAxis == [][C21_Enqueues /\ C21_ArmsWhenBound]_vars

\* C21 as stated: the call arms a flush whether or not the component is
\* initialized
C21_SizeChangeAlwaysArms == [][C21_Enqueues /\ (IsCall("onSizeChange") => C21_Arms)]_vars

C21_Witness ==
    /\ last.op = "onSizeChange"
    /\ _initialized
    /\ _node = "n3"
    /\ last.pushed = 3
    /\ Len(_changeQueue) >= 3
    /\ SubSeq(_changeQueue, Len(_changeQueue) - 2, Len(_changeQueue))
           = <<"CHANGE_SIZE", last.arg[1], "false">>
    /\ _requestingUpdate

C21_WitnessUnbound ==
    /\ last.op = "onSizeChange"
    /\ _node = Null
    /\ ~_requestingUpdate
    /\ _changeQueue = <<>>

\* C22: whenever the component is mounted and its queue is empty, the last
\* GL_CUTOUT_STATE value the Node received for it (if it received any, the
\* false sent by an earlier onDismount included) equals value.cutout.
C22_LayeringMatchesCutout ==
    (_initialized /\ _changeQueue = <<>> /\ glCutoutState # "none") =>
        glCutoutState = Bool(value.cutout)

====
